---- MODULE Spec2Model ----
(***************************************************************************)
(* Model of SimplePlot (src/SimplePlot.py): a mutable builder that         *)
(* accumulates plot parameters and hands them to pyplot in create().       *)
(*                                                                         *)
(* Encoding of Python values                                               *)
(*   - an optional value (None or v) is a sequence of length 0 or 1:       *)
(*     None is << >>, v is <<v>>;                                           *)
(*   - a scalar argument is a record [type, repr] as Python sees it;       *)
(*   - a data argument is a record [type, items];                          *)
(*   - a float is modelled by the integer it equals (all floats that       *)
(*     occur are integral).                                                *)
(***************************************************************************)
EXTENDS Integers, Sequences, FiniteSets, TLC

VARIABLES dpi, x_data, y_data, x_label, y_label, title, legend,
          y_limits, x_limits, log_x, log_y, grid,
          added_labels, call, plot, checked

vars == <<dpi, x_data, y_data, x_label, y_label, title, legend,
          y_limits, x_limits, log_x, log_y, grid,
          added_labels, call, plot, checked>>

fields == <<dpi, x_data, y_data, x_label, y_label, title, legend,
            y_limits, x_limits, log_x, log_y, grid>>

(* ---------------------------- bounds ----------------------------------- *)
MaxLen == 1
MaxY == 2
MaxSets == 2
MaxLenXY == 2

(* ------------------------- program constants --------------------------- *)
DefaultDpi == 1200

(* --------------------------- Python values ----------------------------- *)
None == << >>
Some(v) == <<v>>

PyNone == [type |-> "NoneType", repr |-> "None"]
PyInt(r) == [type |-> "int", repr |-> r]
PyStr(r) == [type |-> "str", repr |-> r]

PyList(s) == [type |-> "list", items |-> s]
PyTuple(s) == [type |-> "tuple", items |-> s]
PyNotSeq == [type |-> "int", items |-> << >>]

NumericText == {"-1", "0", "2", "300", "nan"}

\* float("nan"): the one float that is neither below, equal to nor above
\* any float; it is kept apart from the numbers by a value none of them has
NaN == 0 - 999999

IntOf(r) ==
  CASE r = "-1" -> 0 - 1
    [] r = "0" -> 0
    [] r = "2" -> 2
    [] r = "300" -> 300
    [] r = "nan" -> NaN

\* a < b, a <= b and a > b on floats: every comparison with nan is False
float_lt(a, b) == a # NaN /\ b # NaN /\ a < b
float_le(a, b) == a # NaN /\ b # NaN /\ a <= b
float_gt(a, b) == a # NaN /\ b # NaN /\ a > b

\* float(v): the number an int is, the number a numeric text spells;
\* anything else raises.
float_raises(v) ==
  \/ v.type = "NoneType"
  \/ v.type = "str" /\ v.repr \notin NumericText

float(v) == IntOf(v.repr)

\* f"{v}"
format(v) == v.repr

\* isinstance(v, str)
is_str(v) == v.type = "str"

\* type(v) is list or type(v) is tuple
is_list_or_tuple(v) == v.type = "list" \/ v.type = "tuple"

RECURSIVE seq_min(_)
seq_min(s) ==
  IF Len(s) = 1 THEN s[1]
  ELSE LET m == seq_min(Tail(s)) IN IF s[1] < m THEN s[1] ELSE m

RECURSIVE seq_max(_)
seq_max(s) ==
  IF Len(s) = 1 THEN s[1]
  ELSE LET m == seq_max(Tail(s)) IN IF s[1] > m THEN s[1] ELSE m

(* ------------------------------ inputs --------------------------------- *)
Vals == {0 - 1, 1}

RECURSIVE SeqsUpTo(_)
SeqsUpTo(n) ==
  IF n = 0 THEN {<< >>}
  ELSE LET prev == SeqsUpTo(n - 1) IN
       prev \cup {Append(s, v) : s \in {p \in prev : Len(p) = n - 1}, v \in Vals}

DataSeqs == SeqsUpTo(MaxLen)
DataArgs == {PyList(s) : s \in DataSeqs} \cup {PyTuple(<<1>>), PyNotSeq}

LimitArgs == {PyNone, PyInt("-1"), PyStr("2"), PyStr("abc")}
DpiArgs == {PyInt("-1"), PyInt("0"), PyInt("300"), PyStr("300"), PyStr("nan"),
            PyStr("abc"), PyNone}
TextArgs == {PyNone, PyStr("L1"), PyInt("7")}
LabelArgs == {PyNone, PyInt("7")}
SetArgs == {PyList(s) : s \in DataSeqs} \cup {PyNotSeq}
XYArgs == {PyList(s) : s \in SeqsUpTo(MaxLenXY)}
TitleArgs == {PyNone, PyInt("7")}
FileArgs == {PyNone, PyStr("out.png"), PyInt("7")}

(* ------------------------------- state --------------------------------- *)
Self ==
  [dpi |-> dpi, x_data |-> x_data, y_data |-> y_data, x_label |-> x_label,
   y_label |-> y_label, title |-> title, legend |-> legend,
   y_limits |-> y_limits, x_limits |-> x_limits, log_x |-> log_x,
   log_y |-> log_y, grid |-> grid]

\* The result of a call: the object afterwards and whether the call raised.
Ok(s) == [self |-> s, raised |-> FALSE]
Raise(s) == [self |-> s, raised |-> TRUE]

\* __init__(title)
init(t) ==
  [dpi |-> DefaultDpi, x_data |-> None, y_data |-> << >>, x_label |-> None,
   y_label |-> None,
   title |-> IF t.type = "NoneType" THEN None ELSE Some(format(t)),
   legend |-> << >>, y_limits |-> <<Some(0), None>>,
   x_limits |-> <<None, None>>, log_x |-> FALSE, log_y |-> FALSE,
   grid |-> None]

(* ----------------------------- operations ------------------------------ *)
\* set_dpi(dpi)
set_dpi(s, v) ==
  IF float_raises(v) THEN Raise(s)
  ELSE IF float_le(float(v), 0) THEN Raise(s)
  ELSE Ok([s EXCEPT !.dpi = float(v)])

\* set_grid(color, style)
set_grid(s, color, style) ==
  IF color.type = "NoneType" THEN Ok([s EXCEPT !.grid = None])
  ELSE Ok([s EXCEPT !.grid = Some(<<color.repr, style>>)])

\* the label conversion shared by set_x_label and set_y_label
to_label(v) ==
  IF v.type = "NoneType" THEN None
  ELSE IF is_str(v) THEN Some(v.repr)
  ELSE Some(format(v))

set_x_label(s, v) == Ok([s EXCEPT !.x_label = to_label(v)])

set_y_label(s, v) == Ok([s EXCEPT !.y_label = to_label(v)])

\* an optional bound after "if b is not None: b = float(b)"
to_bound(v) == IF v.type = "NoneType" THEN None ELSE Some(float(v))

bound_raises(v) == v.type # "NoneType" /\ float_raises(v)

\* set_x_limits(xmin, xmax): the pair is assigned to __y_limits (line 149)
set_x_limits(s, xmin, xmax) ==
  IF s.log_x THEN Raise(s)
  ELSE IF bound_raises(xmin) \/ bound_raises(xmax) THEN Raise(s)
  ELSE Ok([s EXCEPT !.y_limits = <<to_bound(xmin), to_bound(xmax)>>])

\* set_y_limits(ymin, ymax)
set_y_limits(s, ymin, ymax) ==
  IF s.log_y THEN Raise(s)
  ELSE IF bound_raises(ymin) \/ bound_raises(ymax) THEN Raise(s)
  ELSE Ok([s EXCEPT !.y_limits = <<to_bound(ymin), to_bound(ymax)>>])

\* save(filename): pass
save(s, filename) == Ok(s)

\* The two limit checks of set_x_data / add_y_data on a limits pair lim and
\* a data sequence d.  min() and max() raise on an empty sequence; the
\* upper check compares against lim[1] (Python lim[0]) AFTER the lower check
\* may have cleared it, and "m > None" raises.  The result is the limits
\* pair at the moment the checks end, and whether they ended by raising.
lower_checked(lim, d) ==
  IF lim[1] = None THEN [lim |-> lim, raised |-> FALSE]
  ELSE IF Len(d) = 0 THEN [lim |-> lim, raised |-> TRUE]
  ELSE IF float_lt(seq_min(d), lim[1][1]) THEN [lim |-> <<None, lim[2]>>, raised |-> FALSE]
  ELSE [lim |-> lim, raised |-> FALSE]

upper_checked(lim, d) ==
  IF lim[2] = None THEN [lim |-> lim, raised |-> FALSE]
  ELSE IF Len(d) = 0 THEN [lim |-> lim, raised |-> TRUE]
  ELSE IF lim[1] = None THEN [lim |-> lim, raised |-> TRUE]
  ELSE IF float_gt(seq_max(d), lim[1][1]) THEN [lim |-> <<lim[1], None>>, raised |-> FALSE]
  ELSE [lim |-> lim, raised |-> FALSE]

limits_checked(lim, d) ==
  LET lo == lower_checked(lim, d) IN
  IF lo.raised THEN lo ELSE upper_checked(lo.lim, d)

\* set_x_data without the comparison with the first Y series
set_x_data_unchecked(s, x) ==
  IF ~is_list_or_tuple(x) THEN Raise(s)
  ELSE IF Len(x.items) <= 0 THEN Raise(s)
  ELSE LET c == limits_checked(s.x_limits, x.items) IN
       IF c.raised THEN Raise([s EXCEPT !.x_limits = c.lim])
       ELSE Ok([s EXCEPT !.x_limits = c.lim, !.x_data = Some(x.items)])

\* set_x_data dropping the stored X series when it rejects its argument
set_x_data_reset(s, x) ==
  IF ~is_list_or_tuple(x) THEN Raise([s EXCEPT !.x_data = None])
  ELSE IF Len(x.items) <= 0 THEN Raise([s EXCEPT !.x_data = None])
  ELSE IF Len(s.y_data) > 0 /\ Len(x.items) # Len(s.y_data[1])
    THEN Raise([s EXCEPT !.x_data = None])
  ELSE LET c == limits_checked(s.x_limits, x.items) IN
       IF c.raised THEN Raise([s EXCEPT !.x_limits = c.lim, !.x_data = None])
       ELSE Ok([s EXCEPT !.x_limits = c.lim, !.x_data = Some(x.items)])

\* set_x_data(x_data)
set_x_data(s, x) ==
  IF ~is_list_or_tuple(x) THEN Raise(s)
  ELSE IF Len(x.items) <= 0 THEN Raise(s)
  ELSE IF Len(s.y_data) > 0 /\ Len(x.items) # Len(s.y_data[1]) THEN Raise(s)
  ELSE LET c == limits_checked(s.x_limits, x.items) IN
       IF c.raised THEN Raise([s EXCEPT !.x_limits = c.lim])
       ELSE Ok([s EXCEPT !.x_limits = c.lim, !.x_data = Some(x.items)])

\* the label conversion of add_y_data (lines 232-233)
to_legend(v) == IF v.type = "NoneType" THEN None ELSE Some(format(v))

\* add_y_data comparing with the first Y series even when X is set
add_y_data_first_y(s, y, label) ==
  IF ~is_list_or_tuple(y) THEN Raise(s)
  ELSE IF Len(s.y_data) > 0 /\ Len(y.items) # Len(s.y_data[1]) THEN Raise(s)
  ELSE LET c == limits_checked(s.y_limits, y.items) IN
       IF c.raised THEN Raise([s EXCEPT !.y_limits = c.lim])
       ELSE Ok([s EXCEPT !.y_limits = c.lim,
                         !.legend = Append(s.legend, to_legend(label)),
                         !.y_data = Append(s.y_data, y.items)])

\* add_y_data(y_data, label)
add_y_data(s, y, label) ==
  IF ~is_list_or_tuple(y) THEN Raise(s)
  ELSE IF s.x_data # None /\ Len(y.items) # Len(s.x_data[1]) THEN Raise(s)
  ELSE IF s.x_data = None /\ Len(s.y_data) > 0 /\ Len(y.items) # Len(s.y_data[1])
       THEN Raise(s)
  ELSE LET c == limits_checked(s.y_limits, y.items) IN
       IF c.raised THEN Raise([s EXCEPT !.y_limits = c.lim])
       ELSE Ok([s EXCEPT !.y_limits = c.lim,
                         !.legend = Append(s.legend, to_legend(label)),
                         !.y_data = Append(s.y_data, y.items)])

\* the loop of add_y_sets from entry i on: stops at the first entry that raises
RECURSIVE add_y_loop(_, _, _, _)
add_y_loop(s, ys, labels, i) ==
  IF i > Len(ys) THEN Ok(s)
  ELSE LET r == add_y_data(s, ys[i], IF labels = None THEN PyNone ELSE labels[1][i]) IN
       IF r.raised THEN r ELSE add_y_loop(r.self, ys, labels, i + 1)

\* add_y_sets passing no label on
add_y_sets_unlabelled(s, ys, labels) ==
  IF labels # None /\ Len(labels[1]) # Len(ys) THEN Raise(s)
  ELSE add_y_loop(s, ys, None, 1)

\* add_y_sets adding nothing when an entry is rejected
add_y_sets_atomic(s, ys, labels) ==
  IF labels # None /\ Len(labels[1]) # Len(ys) THEN Raise(s)
  ELSE LET r == add_y_loop(s, ys, labels, 1) IN
       IF r.raised THEN Raise(s) ELSE r

\* add_y_sets(y_list, y_labels): y_list is a list of data arguments, y_labels
\* is None or a list of label arguments
add_y_sets(s, ys, labels) ==
  IF labels # None /\ Len(labels[1]) # Len(ys) THEN Raise(s)
  ELSE add_y_loop(s, ys, labels, 1)

\* set_log_scale that clears the limits of the X axis only
set_log_scale_x_only(s, x, y) ==
  Ok([s EXCEPT !.log_x = x, !.log_y = y,
               !.x_limits = IF x THEN <<None, None>> ELSE @])

\* set_log_scale(x, y)
set_log_scale(s, x, y) ==
  Ok([s EXCEPT !.log_x = x, !.log_y = y,
               !.x_limits = IF x THEN <<None, None>> ELSE @,
               !.y_limits = IF y THEN <<None, None>> ELSE @])

\* check_file_writable(f): raises unless f is a str, else answers what the
\* file system answers (writable)
check_file_writable_raises(f) == ~is_str(f)

check_file_writable(f, writable) == writable

\* the legend list after the loop of lines 313-317
RECURSIVE normalized(_)
normalized(lg) ==
  IF lg = << >> THEN << >>
  ELSE <<IF Head(lg) = None THEN Some("") ELSE Head(lg)>> \o normalized(Tail(lg))

\* any(elem is not None for elem in legend)
use_legend(lg) == \E i \in 1..Len(lg) : lg[i] # None

\* what create hands to pyplot (lines 320-363)
description(s, lg, flag, filename) ==
  [x |-> s.x_data[1],
   lines |-> [i \in 1..Len(s.y_data) |-> <<s.y_data[i], lg[i][1]>>],
   legend |-> flag,
   xlim |-> IF s.log_x THEN None ELSE Some(s.x_limits),
   ylim |-> IF s.log_y THEN None ELSE Some(s.y_limits),
   xscale |-> IF s.log_x THEN "log" ELSE "linear",
   yscale |-> IF s.log_y THEN "log" ELSE "linear",
   xlabel |-> s.x_label, ylabel |-> s.y_label, title |-> s.title,
   grid |-> s.grid,
   out |-> IF filename.type = "NoneType" THEN "show" ELSE "savefig",
   dpi |-> IF filename.type = "NoneType" THEN None ELSE Some(s.dpi)]

\* create checking the destination before it looks for the X series
create_checks_first(s, filename, writable) ==
  IF filename.type # "NoneType" /\ check_file_writable_raises(filename)
    THEN [self |-> s, raised |-> TRUE, plot |-> None, checked |-> TRUE]
  ELSE IF filename.type # "NoneType" /\ ~check_file_writable(filename, writable)
    THEN [self |-> s, raised |-> TRUE, plot |-> None, checked |-> TRUE]
  ELSE IF s.x_data = None
    THEN [self |-> s, raised |-> TRUE, plot |-> None,
          checked |-> filename.type # "NoneType"]
  ELSE LET lg == normalized(s.legend) IN
       [self |-> [s EXCEPT !.legend = lg], raised |-> FALSE,
        plot |-> Some(description(s, lg, use_legend(s.legend), filename)),
        checked |-> filename.type # "NoneType"]

\* create running the writability check whether or not a file name is given
create_always_checks(s, filename, writable) ==
  IF s.x_data = None
    THEN [self |-> s, raised |-> TRUE, plot |-> None, checked |-> FALSE]
  ELSE IF check_file_writable_raises(filename)
    THEN [self |-> s, raised |-> TRUE, plot |-> None, checked |-> TRUE]
  ELSE IF ~check_file_writable(filename, writable)
    THEN [self |-> s, raised |-> TRUE, plot |-> None, checked |-> TRUE]
  ELSE LET lg == normalized(s.legend) IN
       [self |-> [s EXCEPT !.legend = lg], raised |-> FALSE,
        plot |-> Some(description(s, lg, use_legend(s.legend), filename)),
        checked |-> TRUE]

\* create(filename); writable is the file system's answer to the
\* writability check
create(s, filename, writable) ==
  IF s.x_data = None
    THEN [self |-> s, raised |-> TRUE, plot |-> None, checked |-> FALSE]
  ELSE IF filename.type # "NoneType" /\ check_file_writable_raises(filename)
    THEN [self |-> s, raised |-> TRUE, plot |-> None, checked |-> TRUE]
  ELSE IF filename.type # "NoneType" /\ ~check_file_writable(filename, writable)
    THEN [self |-> s, raised |-> TRUE, plot |-> None, checked |-> TRUE]
  ELSE LET lg == normalized(s.legend) IN
       [self |-> [s EXCEPT !.legend = lg], raised |-> FALSE,
        plot |-> Some(description(s, lg, use_legend(s.legend), filename)),
        checked |-> filename.type # "NoneType"]

(* ------------------------------- actions ------------------------------- *)
Constructed(s) ==
  /\ dpi = s.dpi
  /\ x_data = s.x_data
  /\ y_data = s.y_data
  /\ x_label = s.x_label
  /\ y_label = s.y_label
  /\ title = s.title
  /\ legend = s.legend
  /\ y_limits = s.y_limits
  /\ x_limits = s.x_limits
  /\ log_x = s.log_x
  /\ log_y = s.log_y
  /\ grid = s.grid

\* SimplePlot(title)
InitWith(T) ==
  /\ \E t \in T : Constructed(init(t))
  /\ added_labels = << >>
  /\ call = [op |-> "__init__", raised |-> FALSE, args |-> << >>]
  /\ plot = None
  /\ checked = FALSE

\* SimplePlot()
Init == InitWith({PyNone})

\* SimplePlot() or SimplePlot(7)
InitTitled == InitWith(TitleArgs)

Store(s) ==
  /\ dpi' = s.dpi
  /\ x_data' = s.x_data
  /\ y_data' = s.y_data
  /\ x_label' = s.x_label
  /\ y_label' = s.y_label
  /\ title' = s.title
  /\ legend' = s.legend
  /\ y_limits' = s.y_limits
  /\ x_limits' = s.x_limits
  /\ log_x' = s.log_x
  /\ log_y' = s.log_y
  /\ grid' = s.grid

\* a call that is not create: r is its result; the arguments an accepted
\* bound setter was given are kept for the next state to see
Returned(op, args, r) ==
  /\ Store(r.self)
  /\ call' = [op |-> op, raised |-> r.raised,
              args |-> IF r.raised THEN << >> ELSE args]
  /\ plot' = None
  /\ checked' = FALSE

Call_set_dpi ==
  \E v \in DpiArgs :
    /\ Returned("set_dpi", << >>, set_dpi(Self, v))
    /\ UNCHANGED added_labels

Call_set_grid ==
  \E color \in {PyNone, PyStr("darkgray")} :
    /\ Returned("set_grid", << >>, set_grid(Self, color, "--"))
    /\ UNCHANGED added_labels

Call_set_x_label ==
  \E v \in TextArgs :
    /\ Returned("set_x_label", << >>, set_x_label(Self, v))
    /\ UNCHANGED added_labels

Call_set_y_label ==
  \E v \in TextArgs :
    /\ Returned("set_y_label", << >>, set_y_label(Self, v))
    /\ UNCHANGED added_labels

Call_set_x_limits ==
  \E lo \in LimitArgs, hi \in LimitArgs :
    /\ Returned("set_x_limits", <<lo, hi>>, set_x_limits(Self, lo, hi))
    /\ UNCHANGED added_labels

Call_set_y_limits ==
  \E lo \in LimitArgs, hi \in LimitArgs :
    /\ Returned("set_y_limits", <<lo, hi>>, set_y_limits(Self, lo, hi))
    /\ UNCHANGED added_labels

Call_save ==
  \E f \in FileArgs :
    /\ Returned("save", << >>, save(Self, f))
    /\ UNCHANGED added_labels

Do_set_x_data(D) ==
  \E x \in D :
    /\ Returned("set_x_data", << >>, set_x_data(Self, x))
    /\ UNCHANGED added_labels

Call_set_x_data == Do_set_x_data(DataArgs)

\* the number of Y series a call appended
Appended(r) == Len(r.self.y_data) - Len(y_data)

\* the label argument of entry i of an add_y_sets call
label_of(labels, i) == IF labels = None THEN PyNone ELSE labels[1][i]

Do_add_y_data(D) ==
  /\ Len(y_data) < MaxY
  /\ \E y \in D, label \in LabelArgs :
       LET r == add_y_data(Self, y, label) IN
       /\ Returned("add_y_data", << >>, r)
       /\ added_labels' = IF Appended(r) = 1
                            THEN Append(added_labels, to_legend(label))
                            ELSE added_labels

Call_add_y_data == Do_add_y_data(DataArgs)

Call_add_y_sets ==
  \E n \in 0..MaxSets :
    /\ Len(y_data) + n <= MaxY
    /\ \E ys \in [1..n -> SetArgs] :
       \E labels \in {None} \cup {Some(l) : l \in [1..n -> LabelArgs]}
                          \cup {Some([i \in 1..(n + 1) |-> PyNone])} :
         LET r == add_y_sets(Self, ys, labels) IN
         /\ Store(r.self)
         /\ call' = [op |-> "add_y_sets", raised |-> r.raised,
                     args |-> <<Appended(r)>>]
         /\ plot' = None
         /\ checked' = FALSE
         /\ added_labels' = added_labels \o
              [i \in 1..Appended(r) |-> to_legend(label_of(labels, i))]

Call_set_log_scale ==
  \E x \in BOOLEAN, y \in BOOLEAN :
    /\ Returned("set_log_scale", << >>, set_log_scale(Self, x, y))
    /\ UNCHANGED added_labels

Call_create ==
  \E f \in FileArgs, writable \in BOOLEAN :
    LET r == create(Self, f, writable) IN
    /\ Store(r.self)
    /\ call' = [op |-> "create", raised |-> r.raised, args |-> << >>]
    /\ plot' = r.plot
    /\ checked' = r.checked
    /\ UNCHANGED added_labels

\* the operations on data, limits and scales, and create
Next ==
  \/ Call_set_x_limits
  \/ Call_set_y_limits
  \/ Call_set_x_data
  \/ Call_add_y_data
  \/ Call_add_y_sets
  \/ Call_set_log_scale
  \/ Call_create

Spec == Init /\ [][Next]_vars

\* the setters of the settings create passes through, around one data set
NextSettings ==
  \/ Call_set_dpi
  \/ Call_set_grid
  \/ Call_set_x_label
  \/ Call_set_y_label
  \/ Call_save
  \/ Call_set_x_data
  \/ Call_create

SpecSettings == InitTitled /\ [][NextSettings]_vars

\* a fresh builder given its X series and then Y series one by one
Fresh_set_x_data == call.op = "__init__" /\ Do_set_x_data(XYArgs)

Then_add_y_data == x_data # None /\ Do_add_y_data(XYArgs)

NextXY ==
  \/ Fresh_set_x_data
  \/ Then_add_y_data

SpecXY == Init /\ [][NextXY]_vars

(* ------------------------------- claims -------------------------------- *)
Lengths(ys) == {Len(ys[i]) : i \in 1..Len(ys)}

\* C1: in every reachable state, if an X series is stored every stored Y
\* series has its length, and if none is stored all stored Y series have
\* the same length.
C1_LengthConsistency ==
  /\ x_data # None => Lengths(y_data) \subseteq {Len(x_data[1])}
  /\ x_data = None => Cardinality(Lengths(y_data)) <= 1

\* a Y series of another length rejected by a builder holding an X series
\* and a Y series
C1_Witness ==
  /\ x_data # None
  /\ Len(y_data) = 1
  /\ call.op = "add_y_data"
  /\ call.raised

\* C2: set_x_limits(b, ...) accepted on a non-logarithmic X axis and
\* followed by an accepted set_x_data(x) leaves the lower X bound unset when
\* min(x) < b and equal to b when min(x) >= b.
C2_LowerXBoundAfterData ==
  [][(/\ call.op = "set_x_limits" /\ ~call.raised
      /\ call.args[1].type # "NoneType"
      /\ call'.op = "set_x_data" /\ ~call'.raised) =>
        x_limits'[1] =
          IF seq_min(x_data'[1]) < float(call.args[1]) THEN None
          ELSE Some(float(call.args[1]))]_vars

\* C3: an accepted data-adding call made while an upper bound u is stored on
\* its axis clears the upper bound if the new series' maximum exceeds u and
\* keeps it otherwise, whatever the lower bound is.
C3_UpperBoundRetraction ==
  [][/\ (call'.op = "add_y_data" /\ ~call'.raised /\ y_limits[2] # None) =>
          y_limits'[2] =
            IF seq_max(y_data'[Len(y_data')]) > y_limits[2][1] THEN None
            ELSE y_limits[2]
     /\ (call'.op = "set_x_data" /\ ~call'.raised /\ x_limits[2] # None) =>
          x_limits'[2] =
            IF seq_max(x_data'[1]) > x_limits[2][1] THEN None
            ELSE x_limits[2]]_vars

\* C4: in every reachable state, a logarithmic axis has both bounds unset.
C4_LogExcludesLimits ==
  /\ log_x => x_limits = <<None, None>>
  /\ log_y => y_limits = <<None, None>>

\* C5: a create call leaves every stored field as it was.
C5_CreateMutatesNothing ==
  [][call'.op = "create" => fields' = fields]_vars

\* C6: on every accepted create call the legend flag handed to the renderer
\* is true exactly when some stored Y series was added with a label that is
\* not None.
C6_LegendFlag ==
  (call.op = "create" /\ ~call.raised) =>
    (plot[1].legend <=> \E i \in 1..Len(added_labels) : added_labels[i] # None)

\* C7: a call other than add_y_sets that raises leaves every field as it was.
C7_RaiseChangesNothing ==
  [][(call'.raised /\ call'.op # "add_y_sets") => fields' = fields]_vars

\* C8: on a fresh builder given a non-empty X series x, each following
\* add_y_data(y) is accepted if and only if len(y) = len(x), and every
\* non-empty x is accepted in the first place.
C8_AcceptedIffSameLength ==
  /\ call.op = "__init__" =>
       \A x \in XYArgs : Len(x.items) > 0 => ~set_x_data(Self, x).raised
  /\ x_data # None =>
       \A y \in XYArgs, label \in LabelArgs :
         add_y_data(Self, y, label).raised <=> Len(y.items) # Len(x_data[1])

\* a Y series of another length rejected after one was accepted
C8_Witness ==
  /\ x_data # None
  /\ Len(x_data[1]) = 2
  /\ Len(y_data) = 1
  /\ call.op = "add_y_data"
  /\ call.raised

\* C9: an accepted bound setter stores the bounds it was given as the limits
\* of its own axis.
C9_SetterStoresOwnAxis ==
  /\ (call.op = "set_x_limits" /\ ~call.raised) =>
       x_limits = <<to_bound(call.args[1]), to_bound(call.args[2])>>
  /\ (call.op = "set_y_limits" /\ ~call.raised) =>
       y_limits = <<to_bound(call.args[1]), to_bound(call.args[2])>>

BothSet(lim) == lim[1] # None /\ lim[2] # None

\* C10: set_log_scale enabling an axis whose two bounds are set clears both,
\* and the bound setter of an axis in logarithmic mode raises and changes
\* no field.
C10_LogClearsAndRejects ==
  [][/\ (call'.op = "set_log_scale" /\ log_x' /\ BothSet(x_limits)) =>
          x_limits' = <<None, None>>
     /\ (call'.op = "set_log_scale" /\ log_y' /\ BothSet(y_limits)) =>
          y_limits' = <<None, None>>
     /\ (call'.op = "set_x_limits" /\ log_x) =>
          (call'.raised /\ fields' = fields)
     /\ (call'.op = "set_y_limits" /\ log_y) =>
          (call'.raised /\ fields' = fields)]_vars

\* the Y bound setter rejected on a logarithmic Y axis whose bounds are clear
C10_Witness ==
  /\ call.op = "set_y_limits"
  /\ call.raised
  /\ log_y
  /\ y_limits = <<None, None>>

\* C11: a create call on a builder that holds no X series raises, whatever
\* Y series it holds, and invokes neither the writability check nor the
\* renderer.
C11_CreateWithoutXRejected ==
  (call.op = "create" /\ x_data = None) =>
    (call.raised /\ ~checked /\ plot = None)

\* create rejected on a builder that holds a Y series and no X series
C11_Witness ==
  /\ call.op = "create"
  /\ call.raised
  /\ x_data = None
  /\ Len(y_data) >= 1

\* the arguments the model gives add_y_sets
SetLists == UNION {[1..n -> SetArgs] : n \in 0..MaxSets}

SetLabels(ys) ==
  {None} \cup {Some(l) : l \in [1..Len(ys) -> LabelArgs]}
         \cup {Some([i \in 1..(Len(ys) + 1) |-> PyNone])}

LabelsMatch(ys, labels) == labels = None \/ Len(labels[1]) = Len(ys)

\* a caller calling add_y_data(ys[i], ls[i]) for each i in order, stopping
\* at the first call that raises
RECURSIVE one_by_one(_, _, _)
one_by_one(s, ys, ls) ==
  IF ys = << >> THEN Ok(s)
  ELSE LET r == add_y_data(s, Head(ys), Head(ls)) IN
       IF r.raised THEN r ELSE one_by_one(r.self, Tail(ys), Tail(ls))

PassedLabels(ys, labels) == [i \in 1..Len(ys) |-> label_of(labels, i)]

\* C12: an add_y_sets call that accepts every entry leaves the builder as
\* add_y_data called on the entries one by one with their labels (None when
\* no labels are given) leaves it: the series and the labels are appended in
\* the order given, and the fields (the Y limits among them) are equal.
C12_SetsAsOneByOne ==
  \A ys \in SetLists : \A labels \in SetLabels(ys) :
    LET r == add_y_sets(Self, ys, labels) IN
    ~r.raised =>
      LET ls == PassedLabels(ys, labels)
          q == one_by_one(Self, ys, ls)
      IN  /\ ~q.raised
          /\ r.self = q.self
          /\ r.self.y_data = y_data \o [i \in 1..Len(ys) |-> ys[i].items]
          /\ r.self.legend = legend \o [i \in 1..Len(ys) |-> to_legend(ls[i])]

\* an add_y_sets call that added two labelled series
C12_Witness ==
  /\ call.op = "add_y_sets"
  /\ ~call.raised
  /\ call.args[1] = 2
  /\ legend[1] # None
  /\ legend[2] # None

\* C13: an add_y_sets call that raises at entry k because add_y_data rejects
\* it has appended the entries before k with their labels and none from k
\* on; one that raises because the labels and the series differ in number
\* has appended nothing.
C13_PartialApplication ==
  \A ys \in SetLists : \A labels \in SetLabels(ys) :
    LET r == add_y_sets(Self, ys, labels) IN
    /\ ~LabelsMatch(ys, labels) =>
         (r.raised /\ r.self.y_data = y_data /\ r.self.legend = legend)
    /\ (LabelsMatch(ys, labels) /\ r.raised) =>
         LET ls == PassedLabels(ys, labels)
             k == Len(r.self.y_data) - Len(y_data) + 1
             before == one_by_one(Self, SubSeq(ys, 1, k - 1), SubSeq(ls, 1, k - 1))
         IN  /\ k \in 1..Len(ys)
             /\ ~before.raised
             /\ add_y_data(before.self, ys[k], ls[k]).raised
             /\ r.self.y_data = y_data \o [i \in 1..(k - 1) |-> ys[i].items]
             /\ r.self.legend = legend \o [i \in 1..(k - 1) |-> to_legend(ls[i])]

\* an add_y_sets call that raised after it appended an entry
C13_Witness ==
  /\ call.op = "add_y_sets"
  /\ call.raised
  /\ call.args[1] >= 1

\* C14: the stored dpi is strictly positive in every reachable state: it is
\* 1200 after construction, set_dpi(v) with v <= 0 raises and leaves the fields
\* as they are, and set_dpi(v) with v > 0 stores v.
C14_DpiPositive ==
  /\ float_gt(dpi, 0)
  /\ call.op = "__init__" => dpi = DefaultDpi
  /\ \A v \in DpiArgs :
       ~float_raises(v) =>
         LET r == set_dpi(Self, v) IN
         /\ float_le(float(v), 0) => (r.raised /\ r.self = Self)
         /\ float_gt(float(v), 0) => (~r.raised /\ r.self.dpi = float(v))

\* C15: create() without a file name never runs the writability check,
\* whatever the file system would answer; it raises exactly when no X series
\* is stored, and otherwise asks pyplot to show the figure, not to save it.
C15_CreateWithoutFile ==
  \A writable \in BOOLEAN :
    LET r == create(Self, PyNone, writable) IN
    /\ ~r.checked
    /\ r.raised <=> x_data = None
    /\ ~r.raised => (r.plot # None /\ r.plot[1].out = "show" /\ r.plot[1].dpi = None)
    /\ (call.op = "create" /\ ~checked) =>
         (call.raised <=> plot = None) /\ (call.raised => x_data = None)

\* create() without a file name shown on a builder holding two Y series
C15_Witness ==
  /\ call.op = "create"
  /\ ~call.raised
  /\ ~checked
  /\ plot # None
  /\ plot[1].out = "show"
  /\ Len(y_data) = 2

\* C16: the Y series and the labels stay parallel: the two lists have the
\* same length, and the i-th stored label is the label passed, after the
\* conversion to text, by the call that added the i-th Y series; this also
\* holds after a call that raised.
C16_LabelsParallel ==
  /\ Len(legend) = Len(y_data)
  /\ legend = added_labels

\* C17: once an X series is stored, no call, accepted or rejected, removes
\* it, and a create that raises from then on raises at the writability check,
\* never for a missing X series.
C17_ReadyAbsorbing ==
  [][x_data # None =>
       /\ x_data' # None
       /\ (call'.op = "create" /\ call'.raised) => checked']_vars

\* a rejected set_x_data on a builder that holds an X series
C17_Witness ==
  /\ x_data # None
  /\ call.op = "set_x_data"
  /\ call.raised

\* C18: the builder can always still get its X series: in every reachable
\* state with no X series stored, set_x_data accepts some non-empty sequence,
\* whatever Y series were accepted before, an empty one included.
C18_CanBecomeReady ==
  x_data = None =>
    \E x \in DataArgs :
      /\ is_list_or_tuple(x)
      /\ Len(x.items) > 0
      /\ ~set_x_data(Self, x).raised

====
